---------------------------- MODULE Spec2Model ----------------------------
(***************************************************************************)
(* A model of the browser movie recommender of src/Folder: the catalog     *)
(* loader of data.js (parseItemData, parseRatingData, loadData) and the    *)
(* recommendation logic of script.js (computeJaccard, getRecommendations,  *)
(* populateMoviesDropdown, window.onload).                                 *)
(*                                                                         *)
(* JavaScript strings are modelled as sequences of one-character strings,  *)
(* so that split, trim, parseInt and toLowerCase are computed character by *)
(* character as the engine computes them.  A JavaScript Set is modelled as *)
(* a duplicate-free sequence in insertion order.  Numbers produced by      *)
(* parseInt are integers or the value NaN.  A Jaccard score i/u is kept as *)
(* the pair <<i, u>> and compared by cross-multiplication: with u <= 18    *)
(* the IEEE quotient of two such pairs is equal exactly when the fractions *)
(* are equal and ordered as the fractions are.                             *)
(*                                                                         *)
(* script.js holds its declarations twice (lines 1-162 and 164-336).  A    *)
(* later function declaration of a script replaces an earlier one of the   *)
(* same name, and the second assignment to window.onload replaces the      *)
(* first, so the operations modelled are those of lines 164-336; the       *)
(* earlier getRecommendations (five entries, no tie-break) appears only as *)
(* the variants takeTop_five and compareScored_scoreOnly.  The repeated    *)
(* const declarations of lines 169-170 are taken as the helpers of lines   *)
(* 6-7 they repeat.  The page is taken to hold the #result and             *)
(* #movie-select elements the script looks up; the branches for a missing  *)
(* element are not modelled.                                               *)
(***************************************************************************)
EXTENDS Integers, Sequences, FiniteSets, TLC

VARIABLES
    movies,       \* data.js:15  global array of { id, title, genres }
    ratings,      \* data.js:16  global array of { userId, itemId, rating, timestamp }
    resultText,   \* the text of the #result element
    options,      \* the <option> elements of #movie-select, in order
    selValue,     \* the value of #movie-select when the button is pressed
    recOut,       \* what the last getRecommendations() rendered
    text,         \* the text handed to a direct parse call
    parsed,       \* which parser last ran on text: "none", "item" or "rating"
    setA, setB,   \* the two arguments of a direct computeJaccard call
    score,        \* its result
    pc,           \* per loadData() call: where it is suspended
    resp,         \* per call: the response its last fetch resolved with
    itemBody,     \* per call: the body of the u.item response it read
    dataBody,     \* per call: the body of the u.data response it read
    requested,    \* per call: the resources it has asked fetch for, in order
    error,        \* per call: the error it threw to its caller
    overlapped,   \* per call: another call was in flight during this run
    atStart,      \* per call: the two collections as they were when it started
    loads,        \* number of loadData() calls started so far
    lastEnded     \* the call that returned or threw last

vars == <<movies, ratings, resultText, options, selValue, recOut, text, parsed,
          setA, setB, score, pc, resp, itemBody, dataBody, requested, error,
          overlapped, atStart, loads, lastEnded>>

recVars   == <<selValue, recOut>>
parseVars == <<text, parsed>>
jacVars   == <<setA, setB, score>>
loadVars  == <<pc, resp, itemBody, dataBody, requested, error, overlapped, atStart,
               loads, lastEnded>>
domVars   == <<resultText, options>>

-----------------------------------------------------------------------------
(* Strings *)

\* A JavaScript number that parseInt can produce: an integer or NaN.
NaN == [nan |-> TRUE, v |-> 0]
Num(n) == [nan |-> FALSE, v |-> n]

\* UTF-16 code units of the characters the model uses.
CharCode(c) ==
    CASE c = "\t" -> 9
      [] c = "\n" -> 10
      [] c = "\r" -> 13
      [] c = " "  -> 32
      [] c = "+"  -> 43
      [] c = "-"  -> 45
      [] c = "0"  -> 48
      [] c = "1"  -> 49
      [] c = "2"  -> 50
      [] c = "3"  -> 51
      [] c = "4"  -> 52
      [] c = "5"  -> 53
      [] c = "6"  -> 54
      [] c = "7"  -> 55
      [] c = "8"  -> 56
      [] c = "9"  -> 57
      [] c = "A"  -> 65
      [] c = "B"  -> 66
      [] c = "N"  -> 78
      [] c = "T"  -> 84
      [] c = "a"  -> 97
      [] c = "b"  -> 98
      [] c = "n"  -> 110
      [] c = "t"  -> 116
      [] c = "x"  -> 120
      [] c = "|"  -> 124

IsWhite(c) == c \in {" ", "\t", "\n", "\r"}
IsDigit(c) == CharCode(c) >= 48 /\ CharCode(c) <= 57
DigitVal(c) == CharCode(c) - 48

\* String.prototype.toLowerCase, one character.
LowerChar(c) ==
    IF CharCode(c) >= 65 /\ CharCode(c) <= 90
    THEN CASE c = "A" -> "a" [] c = "B" -> "b" [] c = "N" -> "n" [] c = "T" -> "t"
    ELSE c

toLowerCase(s) == [i \in 1..Len(s) |-> LowerChar(s[i])]

\* The relational < on two strings: the first differing code unit decides,
\* a proper prefix is smaller.
RECURSIVE StrLess(_, _)
StrLess(s, t) ==
    IF t = <<>> THEN FALSE
    ELSE IF s = <<>> THEN TRUE
    ELSE IF CharCode(Head(s)) # CharCode(Head(t))
         THEN CharCode(Head(s)) < CharCode(Head(t))
    ELSE StrLess(Tail(s), Tail(t))

RECURSIVE TrimStart(_)
TrimStart(s) ==
    IF s # <<>> /\ IsWhite(Head(s)) THEN TrimStart(Tail(s)) ELSE s

RECURSIVE TrimEnd(_)
TrimEnd(s) ==
    IF s # <<>> /\ IsWhite(s[Len(s)]) THEN TrimEnd(SubSeq(s, 1, Len(s) - 1)) ELSE s

\* String.prototype.trim
trim(s) == TrimEnd(TrimStart(s))

\* String.prototype.split with a one-character separator: always at least
\* one piece, the empty string splits into one empty piece.
RECURSIVE SplitAcc(_, _, _, _)
SplitAcc(s, sep, cur, acc) ==
    IF s = <<>> THEN Append(acc, cur)
    ELSE IF Head(s) = sep THEN SplitAcc(Tail(s), sep, <<>>, Append(acc, cur))
    ELSE SplitAcc(Tail(s), sep, Append(cur, Head(s)), acc)

split(s, sep) == SplitAcc(s, sep, <<>>, <<>>)

\* text.split(/\r?\n/): a line feed ends a piece, and a carriage return right
\* before it belongs to the separator.
RECURSIVE SplitLinesAcc(_, _, _)
SplitLinesAcc(s, cur, acc) ==
    IF s = <<>> THEN Append(acc, cur)
    ELSE IF Head(s) = "\n" THEN SplitLinesAcc(Tail(s), <<>>, Append(acc, cur))
    ELSE IF Head(s) = "\r" /\ Len(s) >= 2 /\ s[2] = "\n"
         THEN SplitLinesAcc(Tail(Tail(s)), <<>>, Append(acc, cur))
    ELSE SplitLinesAcc(Tail(s), Append(cur, Head(s)), acc)

splitLines(s) == SplitLinesAcc(s, <<>>, <<>>)

RECURSIVE DigitsValue(_, _)
DigitsValue(s, acc) ==
    IF s # <<>> /\ IsDigit(Head(s))
    THEN DigitsValue(Tail(s), acc * 10 + DigitVal(Head(s)))
    ELSE acc

\* parseInt(s, 10): leading white space is skipped, one sign is accepted, the
\* longest run of digits is read; NaN when there is no digit.
parseInt(s) ==
    LET t    == TrimStart(s)
        neg  == t # <<>> /\ Head(t) = "-"
        body == IF t # <<>> /\ Head(t) \in {"+", "-"} THEN Tail(t) ELSE t
    IN  IF body = <<>> \/ ~IsDigit(Head(body)) THEN NaN
        ELSE IF neg THEN Num(0 - DigitsValue(body, 0))
        ELSE Num(DigitsValue(body, 0))

DigitChar(d) == <<"0", "1", "2", "3", "4", "5", "6", "7", "8", "9">>[d + 1]

RECURSIVE NatToString(_)
NatToString(n) ==
    IF n < 10 THEN <<DigitChar(n)>>
    ELSE Append(NatToString(n \div 10), DigitChar(n % 10))

\* String(x) for a number parseInt can produce
String(x) ==
    IF x.nan THEN <<"N", "a", "N">>
    ELSE IF x.v < 0 THEN <<"-">> \o NatToString(0 - x.v)
    ELSE NatToString(x.v)

\* === on two numbers: NaN is equal to nothing, itself included.
StrictEq(x, y) == ~x.nan /\ ~y.nan /\ x.v = y.v

-----------------------------------------------------------------------------
(* data.js: the parsers *)

\* data.js:30-49
genreNames ==
    << "Action", "Adventure", "Animation", "Children's", "Comedy", "Crime",
       "Documentary", "Drama", "Fantasy", "Film-Noir", "Horror", "Musical",
       "Mystery", "Romance", "Sci-Fi", "Thriller", "War", "Western" >>

Max(a, b) == IF a >= b THEN a ELSE b
Min(a, b) == IF a <= b THEN a ELSE b

\* parts.slice(start) with a 0-based start
sliceFrom(parts, start) == SubSeq(parts, start + 1, Len(parts))

\* data.js:73-79, the loop over i = 0 .. genreNames.length - 1
RECURSIVE genresLoop(_, _, _)
genresLoop(flags, i, genres) ==
    IF i >= Len(genreNames) THEN genres
    ELSE LET flag == IF i + 1 <= Len(flags) THEN trim(flags[i + 1]) ELSE <<"0">>
         IN  genresLoop(flags, i + 1,
                        IF flag = <<"1">> THEN Append(genres, genreNames[i + 1])
                        ELSE genres)

\* data.js:70 with the flags taken to start right after the title
flagsStartIndex_afterTitle(parts) == Min(2, Len(parts))

\* data.js:70
flagsStartIndex(parts) == Max(0, Len(parts) - Len(genreNames))

\* data.js:66-81, one record from the fields of a line
movieOfParts(parts) ==
    [ id     |-> parseInt(parts[1]),
      title  |-> trim(parts[2]),
      genres |-> genresLoop(sliceFrom(parts, flagsStartIndex(parts)), 0, <<>>) ]

\* data.js:64 with the guard taken one field too late
tooFewItemFields_three(parts) == Len(parts) < 3

\* data.js:64
tooFewItemFields(parts) == Len(parts) < 2

\* data.js:56-82, the loop over the lines
RECURSIVE itemLoop(_, _)
itemLoop(lines, acc) ==
    IF lines = <<>> THEN acc
    ELSE LET line  == trim(Head(lines))
             parts == split(line, "|")
         IN  IF line = <<>> THEN itemLoop(Tail(lines), acc)
             ELSE IF tooFewItemFields(parts) THEN itemLoop(Tail(lines), acc)
             ELSE itemLoop(Tail(lines), Append(acc, movieOfParts(parts)))

\* data.js:51 left out: the records are pushed onto the array as it is
parseItemData_noReset(t) == itemLoop(splitLines(t), movies)

\* data.js:28-83: the value of the global movies after parseItemData(t)
parseItemData(t) == itemLoop(splitLines(t), <<>>)

\* data.js:97-110
RECURSIVE ratingLoop(_, _)
ratingLoop(lines, acc) ==
    IF lines = <<>> THEN acc
    ELSE LET line  == trim(Head(lines))
             parts == split(line, "\t")
         IN  IF line = <<>> THEN ratingLoop(Tail(lines), acc)
             ELSE IF Len(parts) < 4 THEN ratingLoop(Tail(lines), acc)
             ELSE ratingLoop(Tail(lines),
                      Append(acc, [ userId    |-> parseInt(parts[1]),
                                    itemId    |-> parseInt(parts[2]),
                                    rating    |-> parseInt(parts[3]),
                                    timestamp |-> parseInt(parts[4]) ]))

\* data.js:91-111: the value of the global ratings after parseRatingData(t)
parseRatingData(t) == ratingLoop(splitLines(t), <<>>)

-----------------------------------------------------------------------------
(* script.js: similarity and ranking *)

\* new Set(array): the distinct elements in order of first occurrence
RECURSIVE newSetAcc(_, _)
newSetAcc(arr, acc) ==
    IF arr = <<>> THEN acc
    ELSE IF \E k \in 1..Len(acc) : acc[k] = Head(arr)
         THEN newSetAcc(Tail(arr), acc)
    ELSE newSetAcc(Tail(arr), Append(acc, Head(arr)))

newSet(arr) == newSetAcc(arr, <<>>)

\* set.has(item)
has(set, item) == \E k \in 1..Len(set) : set[k] = item

\* script.js:230-233
RECURSIVE intersectionCount(_, _)
intersectionCount(A, B) ==
    IF A = <<>> THEN 0
    ELSE (IF has(B, Head(A)) THEN 1 ELSE 0) + intersectionCount(Tail(A), B)

\* script.js:234 without the Set: the two sizes added up
unionCount_sum(A, B) == Len(A) + Len(B)

\* script.js:234
unionCount(A, B) == Len(newSet(A \o B))

\* The score 0 and the score i/u.
Zero == <<0, 1>>
ScoreEq(x, y) == x[1] * y[2] = y[1] * x[2]
ScoreLess(x, y) == x[1] * y[2] < y[1] * x[2]
ScorePositive(x) == x[1] > 0

\* script.js:224-237.  Both arguments are always Sets at the one call site
\* (line 289), so the instanceof guard of line 225 never returns.
computeJaccard(A, B) ==
    IF Len(A) = 0 /\ Len(B) = 0 THEN Zero
    ELSE IF unionCount(A, B) = 0 THEN Zero
    ELSE <<intersectionCount(A, B), unionCount(A, B)>>

\* script.js:194-200 and 297-301: the titles compared without case
compareTitle(a, b) ==
    LET ta == toLowerCase(a.title)
        tb == toLowerCase(b.title)
    IN  IF StrLess(ta, tb) THEN -1
        ELSE IF StrLess(tb, ta) THEN 1
        ELSE 0

\* The comparator of the earlier declaration (script.js:127): the score alone.
compareScored_scoreOnly(a, b) ==
    IF ScoreLess(b.score, a.score) THEN -1
    ELSE IF ScoreLess(a.score, b.score) THEN 1
    ELSE 0

\* script.js:294-302
compareScored(a, b) ==
    IF ~ScoreEq(b.score, a.score)
    THEN (IF ScoreLess(b.score, a.score) THEN -1 ELSE 1)
    ELSE compareTitle(a, b)

compare(by, a, b) == IF by = "title" THEN compareTitle(a, b) ELSE compareScored(a, b)

\* Array.prototype.sort with the comparator named by, the one of line 194
\* ("title") or the one of line 294 ("scored"): stable, so an element goes
\* behind every element the comparator does not put after it.
RECURSIVE insertSorted(_, _, _)
insertSorted(by, sorted, x) ==
    IF sorted = <<>> THEN <<x>>
    ELSE IF compare(by, x, Head(sorted)) < 0 THEN <<x>> \o sorted
    ELSE <<Head(sorted)>> \o insertSorted(by, Tail(sorted), x)

RECURSIVE sortAcc(_, _, _)
sortAcc(by, arr, acc) ==
    IF arr = <<>> THEN acc
    ELSE sortAcc(by, Tail(arr), insertSorted(by, acc, Head(arr)))

sort(by, arr) == sortAcc(by, arr, <<>>)

\* array.filter(m => m.score > 0)
RECURSIVE filterPositive(_)
filterPositive(arr) ==
    IF arr = <<>> THEN <<>>
    ELSE IF ScorePositive(Head(arr).score)
         THEN <<Head(arr)>> \o filterPositive(Tail(arr))
    ELSE filterPositive(Tail(arr))

\* The cut of the earlier declaration (script.js:129): five entries.
takeTop_five(scored) == filterPositive(SubSeq(scored, 1, Min(5, Len(scored))))

\* script.js:305
takeTop(scored) == filterPositive(SubSeq(scored, 1, Min(2, Len(scored))))

RECURSIVE findFrom(_, _, _)
findFrom(ms, id, i) ==
    IF i > Len(ms) THEN 0
    ELSE IF StrictEq(ms[i].id, id) THEN i
    ELSE findFrom(ms, id, i + 1)

\* script.js:276 with a fallback to the first movie when nothing matches
findIndex_orFirst(ms, id) ==
    IF findFrom(ms, id, 1) = 0 /\ Len(ms) > 0 THEN 1 ELSE findFrom(ms, id, 1)

\* script.js:276  movies.find(m => m.id === selectedId): the index of the
\* first match, 0 for undefined
findIndex(ms, id) == findFrom(ms, id, 1)

\* script.js:284  movies.filter(m => m.id !== likedMovie.id)
RECURSIVE candidateMovies(_, _)
candidateMovies(ms, liked) ==
    IF ms = <<>> THEN <<>>
    ELSE IF ~StrictEq(Head(ms).id, liked.id)
         THEN <<Head(ms)>> \o candidateMovies(Tail(ms), liked)
    ELSE candidateMovies(Tail(ms), liked)

\* script.js:287-291
scoredMovies(cands, likedGenresSet) ==
    [k \in 1..Len(cands) |->
        [ id     |-> cands[k].id,
          title  |-> cands[k].title,
          genres |-> cands[k].genres,
          score  |-> computeJaccard(likedGenresSet, newSet(cands[k].genres)) ]]

\* score.toFixed(2), in hundredths; a tie goes up
toFixed2(s) == (200 * s[1] + s[2]) \div (2 * s[2])

NoTitle == <<>>

\* script.js:252-319: what getRecommendations() arrives at for the catalog
\* ms and the value of the select element.  kind names the message written
\* to #result, top is the list of line 305 (empty where none is built).
getRecommendations(ms, selectedValue) ==
    IF selectedValue = <<>>
    THEN [kind |-> "Please select a movie first.", liked |-> NoTitle, top |-> <<>>]
    ELSE LET selectedId == parseInt(selectedValue) IN
    IF selectedId.nan
    THEN [kind |-> "Invalid movie selection.", liked |-> NoTitle, top |-> <<>>]
    ELSE LET found == findIndex(ms, selectedId) IN
    IF found = 0
    THEN [kind |-> "Selected movie not found in dataset.", liked |-> NoTitle,
          top |-> <<>>]
    ELSE LET likedMovie     == ms[found]
             likedGenresSet == newSet(likedMovie.genres)
             cands          == candidateMovies(ms, likedMovie)
             sorted         == sort("scored", scoredMovies(cands, likedGenresSet))
             top            == takeTop(sorted)
         IN  [ kind  |-> CASE Len(top) = 0 -> "we couldn't find very similar movies"
                           [] Len(top) = 1 -> "we recommend: one"
                           [] OTHER        -> "we recommend: two",
               liked |-> likedMovie.title,
               top   |-> top ]

\* The text written to #result by lines 309-313: the liked title and, per
\* entry, its title and its score to two decimals.
rendering(out) ==
    [ msg    |-> out.kind,
      liked  |-> out.liked,
      shown  |-> [k \in 1..Len(out.top) |->
                    [title |-> out.top[k].title, score |-> toFixed2(out.top[k].score)]],
      source |-> "",
      status |-> 0 ]

\* A message of the loader or of window.onload in #result.
message(msg, source, status) ==
    [msg |-> msg, liked |-> NoTitle, shown |-> <<>>, source |-> source, status |-> status]

\* script.js:177-217
populateMoviesDropdown(ms) ==
    IF Len(ms) = 0
    THEN << [value |-> <<>>, text |-> <<>>, label |-> "No movies loaded"] >>
    ELSE LET sorted == sort("title", ms)
         IN  << [value |-> <<>>, text |-> <<>>, label |-> "-- Select a movie --"] >>
             \o [k \in 1..Len(sorted) |->
                    [value |-> String(sorted[k].id), text |-> sorted[k].title,
                     label |-> ""]]

-----------------------------------------------------------------------------
(* Bounds and input sets *)

MaxLines  == 3    \* lines of a text handed to a parser
MaxFields == 20   \* fields of a generated flag line
MaxOnes   == 2    \* fields of a generated flag line that are set
NGenres   == 4    \* vocabulary names used in the arguments of computeJaccard
MaxMovies == 4    \* movies of a catalog handed to getRecommendations
MaxLoads  == 3    \* loadData() calls started in one behaviour

SeqsUpTo(S, n) == UNION { [1..k -> S] : k \in 0..n }

RECURSIVE join(_, _)
join(pieces, sep) ==
    IF pieces = <<>> THEN <<>>
    ELSE IF Len(pieces) = 1 THEN pieces[1]
    ELSE pieces[1] \o sep \o join(Tail(pieces), sep)

\* The subsets of 1..n with at most k elements.
RECURSIVE SmallSubsets(_, _)
SmallSubsets(n, k) ==
    IF k = 0 THEN {{}}
    ELSE LET prev == SmallSubsets(n, k - 1)
         IN  prev \cup { S \cup {i} : S \in prev, i \in 1..n }

\* What a set field of a generated line holds: "1", a "1" between blanks, or
\* a field that only starts with 1.
SetFields == { <<"1">>, <<" ", "1", " ">>, <<"1", "0">> }

\* A line of n fields: v at the positions of S, "0" elsewhere.
FlagLine(n, S, v) ==
    join([i \in 1..n |-> IF i \in S THEN v ELSE <<"0">>], <<"|">>)

FlagLines ==
    UNION { { FlagLine(n, S, v) : S \in SmallSubsets(n, MaxOnes), v \in SetFields }
            : n \in 1..MaxFields }

ShortLines ==
    { <<>>,
      <<" ">>,
      <<"7">>,
      <<"x", "|", "T">>,
      <<"7", "|", "a", "|", "1">>,
      <<" ", "2", " ", "|", " ", "B", " ", "|", "0", "|", " ", "1", " ">>,
      <<"1", "\t", "2", "\t", "3", "\t", "7">>,
      <<"1", "\t", "2", "\t", "3">> }

LineEndings == { <<"\n">>, <<"\r", "\n">> }

TextInputs ==
    FlagLines \cup
    { join(ls, sep) : ls \in SeqsUpTo(ShortLines, MaxLines), sep \in LineEndings }

\* The genre arrays parseItemData can build from the first n names: the
\* names of a subset, in vocabulary order.
RECURSIVE namesOf(_, _)
namesOf(S, i) ==
    IF i > Len(genreNames) THEN <<>>
    ELSE (IF i \in S THEN <<genreNames[i]>> ELSE <<>>) \o namesOf(S, i + 1)

GenreArrays(n) == { namesOf(S, 1) : S \in SUBSET (1..n) }

\* Catalogs for getRecommendations: records as parseItemData stores them.
\* The movies with id 1 are the ones a selection can name; their title takes
\* no part in the ranking, so one title is enough for them.  The movie with
\* the NaN id has the title of an id-2 movie in another case.
RecTitles  == { <<"a">>, <<"B">> }
RecGenres  == { <<>>, <<"Action">>, <<"Action", "Adventure">> }
RecMovies  ==
    [ id : {Num(1)}, title : {<<"A">>}, genres : RecGenres ]
    \cup [ id : {Num(2)}, title : RecTitles, genres : RecGenres ]
    \cup { [id |-> NaN, title |-> <<"A">>, genres |-> <<"Action">>] }
SelValues  == { <<>>, <<"1">>, <<"3">>, <<"x">> }

NoScore == <<0, 0>>
NoOut   == [kind |-> "", liked |-> NoTitle, top |-> <<>>]

-----------------------------------------------------------------------------
(* The state outside the operation a specification is about *)

Calls == {1, 2}

NoError == [message |-> "", source |-> "", status |-> 0]
NoResponse == [source |-> "", ok |-> FALSE, status |-> 0]

LoaderIdle ==
    /\ pc = [c \in Calls |-> "idle"]
    /\ resp = [c \in Calls |-> NoResponse]
    /\ itemBody = [c \in Calls |-> <<>>]
    /\ dataBody = [c \in Calls |-> <<>>]
    /\ requested = [c \in Calls |-> <<>>]
    /\ error = [c \in Calls |-> NoError]
    /\ overlapped = [c \in Calls |-> FALSE]
    /\ atStart = [c \in Calls |-> [movies |-> <<>>, ratings |-> <<>>]]
    /\ loads = 0
    /\ lastEnded = 0

PageEmpty ==
    /\ resultText = message("", "", 0)
    /\ options = <<>>

NoParse == text = <<>> /\ parsed = "none"
NoJaccard == setA = <<>> /\ setB = <<>> /\ score = NoScore
NoRec == selValue = <<>> /\ recOut = NoOut

-----------------------------------------------------------------------------
(* SpecJaccard: computeJaccard on every pair of genre sets *)

InitJaccard ==
    /\ setA \in GenreArrays(NGenres)
    /\ setB \in GenreArrays(NGenres)
    /\ score = NoScore
    /\ movies = <<>> /\ ratings = <<>>
    /\ LoaderIdle /\ PageEmpty /\ NoParse /\ NoRec

ComputeJaccard ==
    /\ score = NoScore
    /\ score' = computeJaccard(newSet(setA), newSet(setB))
    /\ UNCHANGED <<movies, ratings, setA, setB, recVars, parseVars, loadVars, domVars>>

NextJaccard == ComputeJaccard

SpecJaccard == InitJaccard /\ [][NextJaccard]_vars

-----------------------------------------------------------------------------
(* SpecParse: the two parsers on generated texts *)

InitParse ==
    /\ text \in TextInputs
    /\ parsed = "none"
    /\ movies = <<>> /\ ratings = <<>>
    /\ LoaderIdle /\ PageEmpty /\ NoJaccard /\ NoRec

\* A direct call of parseItemData on text.
ParseItem ==
    /\ parsed = "none"
    /\ movies' = parseItemData(text)
    /\ parsed' = "item"
    /\ UNCHANGED <<ratings, text, recVars, jacVars, loadVars, domVars>>

\* A direct call of parseRatingData on text.
ParseRating ==
    /\ parsed = "none"
    /\ ratings' = parseRatingData(text)
    /\ parsed' = "rating"
    /\ UNCHANGED <<movies, text, recVars, jacVars, loadVars, domVars>>

NextParse == ParseItem \/ ParseRating

SpecParse == InitParse /\ [][NextParse]_vars

-----------------------------------------------------------------------------
(* SpecRec: getRecommendations on every catalog and selection *)

InitRec ==
    /\ movies \in SeqsUpTo(RecMovies, MaxMovies)
    /\ ratings = <<>>
    /\ selValue = <<>> /\ recOut = NoOut
    /\ LoaderIdle /\ PageEmpty /\ NoJaccard /\ NoParse

\* The button handler, with the select element holding value v.
GetRecommendations(v) ==
    /\ recOut = NoOut
    /\ selValue' = v
    /\ recOut' = getRecommendations(movies, v)
    /\ resultText' = rendering(recOut')
    /\ UNCHANGED <<movies, ratings, options, parseVars, jacVars, loadVars>>

NextRec == \E v \in SelValues : GetRecommendations(v)

SpecRec == InitRec /\ [][NextRec]_vars

-----------------------------------------------------------------------------
(* Spec: the loader.  Call 1 is the loadData() of window.onload, call 2 a   *)
(* direct loadData() made while the page is open.  Each await of loadData  *)
(* is a point where the call is suspended and another handler may run.     *)

\* What fetch can resolve with: a success and two failures.
Statuses == { [ok |-> TRUE, status |-> 200],
              [ok |-> FALSE, status |-> 404],
              [ok |-> FALSE, status |-> 500] }

\* Bodies the server can hold for u.item and for u.data.
ItemTexts ==
    { <<"1", "|", "A", "|", "1", "\n", "2", "|", "B", "|", "0", "|", "1">>,
      <<"7", "|", "a", "|", "1", "\r", "\n", "x">>,
      <<>> }
DataTexts ==
    { <<"1", "\t", "2", "\t", "3", "\t", "7">>,
      <<"2", "\t", "1", "\t", "3", "\t", "7", "\n", "1", "\t", "1", "\t", "2">> }

InFlight == {"fetchItem", "readItem", "fetchData", "readData"}

\* The rejection of a fetch() or text() promise: the engine's own error, which
\* carries neither the resource name nor a status.
TransportError == [message |-> "transport", source |-> "", status |-> 0]

\* data.js:127 and 137
FailedToLoad(source, status) ==
    [message |-> "Failed to load", source |-> source, status |-> status]

\* data.js:119-125: loadData() is entered and suspends on fetch("u.item").
enterLoadData(c) ==
    /\ loads < MaxLoads
    /\ loads' = loads + 1
    /\ pc' = [pc EXCEPT ![c] = "fetchItem"]
    /\ requested' = [requested EXCEPT ![c] = <<"u.item">>]
    /\ resp' = [resp EXCEPT ![c] = NoResponse]
    /\ itemBody' = [itemBody EXCEPT ![c] = <<>>]
    /\ dataBody' = [dataBody EXCEPT ![c] = <<>>]
    /\ error' = [error EXCEPT ![c] = NoError]
    /\ atStart' = [atStart EXCEPT ![c] = [movies |-> movies, ratings |-> ratings]]
    /\ overlapped' = [d \in Calls |->
                        IF d = c THEN \E e \in Calls \ {c} : pc[e] \in InFlight
                        ELSE overlapped[d] \/ pc[d] \in InFlight]
    /\ UNCHANGED <<movies, ratings, options, lastEnded, recVars, parseVars, jacVars>>

\* script.js:322-327
OnLoad ==
    /\ pc[1] = "idle"
    /\ enterLoadData(1)
    /\ resultText' = message("Loading data...", "", 0)

\* A direct call that waits for every call in flight to end first.
LoadData_serialised ==
    /\ pc[2] \notin InFlight
    /\ \A d \in Calls : pc[d] \notin InFlight
    /\ enterLoadData(2)
    /\ UNCHANGED resultText

\* data.js:119-125, called directly
LoadData ==
    /\ pc[2] \notin InFlight
    /\ enterLoadData(2)
    /\ UNCHANGED resultText

\* data.js:146-156 and, for call 1, script.js:330-335: the error is shown in
\* #result and thrown on; window.onload finds #result filled and leaves it.
throws(c, err) ==
    /\ pc' = [pc EXCEPT ![c] = "threw"]
    /\ error' = [error EXCEPT ![c] = err]
    /\ resultText' = message("Error loading data", err.source, err.status)
    /\ lastEnded' = c
    /\ UNCHANGED <<movies, ratings, options, itemBody, dataBody, requested,
                   overlapped, atStart, loads, recVars, parseVars, jacVars>>

\* data.js:126 left out: the body is read whatever the status.
ItemResponse_unchecked(c, r) ==
    /\ pc[c] = "fetchItem"
    /\ resp' = [resp EXCEPT ![c] = [source |-> "u.item", ok |-> r.ok, status |-> r.status]]
    /\ pc' = [pc EXCEPT ![c] = "readItem"]
    /\ UNCHANGED <<movies, ratings, domVars, itemBody, dataBody, requested,
                   error, overlapped, atStart, loads, lastEnded, recVars,
                   parseVars, jacVars>>

\* data.js:125-131: fetch("u.item") resolves with r.
ItemResponse(c, r) ==
    /\ pc[c] = "fetchItem"
    /\ resp' = [resp EXCEPT ![c] = [source |-> "u.item", ok |-> r.ok, status |-> r.status]]
    /\ IF r.ok
       THEN /\ pc' = [pc EXCEPT ![c] = "readItem"]
            /\ UNCHANGED <<movies, ratings, domVars, itemBody, dataBody, requested,
                           error, overlapped, atStart, loads, lastEnded, recVars,
                           parseVars, jacVars>>
       ELSE throws(c, FailedToLoad("u.item", r.status))

\* data.js:125 and 131: fetch("u.item") or the read of its body rejects.
ItemRejected(c) ==
    /\ pc[c] \in {"fetchItem", "readItem"}
    /\ UNCHANGED resp
    /\ throws(c, TransportError)

\* data.js:131-135: the body of u.item arrives, is parsed into movies, and
\* the call suspends on fetch("u.data").
ItemBody(c, t) ==
    /\ pc[c] = "readItem"
    /\ itemBody' = [itemBody EXCEPT ![c] = t]
    /\ movies' = parseItemData(t)
    /\ requested' = [requested EXCEPT ![c] = Append(@, "u.data")]
    /\ pc' = [pc EXCEPT ![c] = "fetchData"]
    /\ UNCHANGED <<ratings, domVars, resp, dataBody, error, overlapped, atStart,
                   loads, lastEnded, recVars, parseVars, jacVars>>

\* A loader that takes the movies back when u.data fails.
DataResponse_rollback(c, r) ==
    /\ pc[c] = "fetchData"
    /\ resp' = [resp EXCEPT ![c] = [source |-> "u.data", ok |-> r.ok, status |-> r.status]]
    /\ IF r.ok
       THEN /\ pc' = [pc EXCEPT ![c] = "readData"]
            /\ UNCHANGED <<movies, ratings, domVars, itemBody, dataBody, requested,
                           error, overlapped, atStart, loads, lastEnded, recVars,
                           parseVars, jacVars>>
       ELSE /\ pc' = [pc EXCEPT ![c] = "threw"]
            /\ error' = [error EXCEPT ![c] = FailedToLoad("u.data", r.status)]
            /\ resultText' = message("Error loading data", "u.data", r.status)
            /\ lastEnded' = c
            /\ movies' = atStart[c].movies
            /\ UNCHANGED <<ratings, options, itemBody, dataBody, requested,
                           overlapped, atStart, loads, recVars, parseVars, jacVars>>

\* data.js:135-141: fetch("u.data") resolves with r.
DataResponse(c, r) ==
    /\ pc[c] = "fetchData"
    /\ resp' = [resp EXCEPT ![c] = [source |-> "u.data", ok |-> r.ok, status |-> r.status]]
    /\ IF r.ok
       THEN /\ pc' = [pc EXCEPT ![c] = "readData"]
            /\ UNCHANGED <<movies, ratings, domVars, itemBody, dataBody, requested,
                           error, overlapped, atStart, loads, lastEnded, recVars,
                           parseVars, jacVars>>
       ELSE throws(c, FailedToLoad("u.data", r.status))

\* data.js:135 and 141: fetch("u.data") or the read of its body rejects.
DataRejected(c) ==
    /\ pc[c] \in {"fetchData", "readData"}
    /\ UNCHANGED resp
    /\ throws(c, TransportError)

\* data.js:141-145: the body of u.data arrives, is parsed into ratings, and
\* loadData returns.  For call 1 window.onload goes on at once
\* (script.js:328-329): the dropdown is filled and the message set.
DataBody(c, t) ==
    /\ pc[c] = "readData"
    /\ dataBody' = [dataBody EXCEPT ![c] = t]
    /\ ratings' = parseRatingData(t)
    /\ pc' = [pc EXCEPT ![c] = "returned"]
    /\ lastEnded' = c
    /\ IF c = 1
       THEN /\ options' = populateMoviesDropdown(movies)
            /\ resultText' = message("Data loaded. Please select a movie.", "", 0)
       ELSE UNCHANGED domVars
    /\ UNCHANGED <<movies, resp, itemBody, requested, error, overlapped, atStart,
                   loads, recVars, parseVars, jacVars>>

Init ==
    /\ movies = <<>> /\ ratings = <<>>
    /\ LoaderIdle /\ PageEmpty /\ NoParse /\ NoJaccard /\ NoRec

Next ==
    \/ OnLoad
    \/ LoadData
    \/ \E c \in Calls, r \in Statuses : ItemResponse(c, r)
    \/ \E c \in Calls : ItemRejected(c)
    \/ \E c \in Calls, t \in ItemTexts : ItemBody(c, t)
    \/ \E c \in Calls, r \in Statuses : DataResponse(c, r)
    \/ \E c \in Calls : DataRejected(c)
    \/ \E c \in Calls, t \in DataTexts : DataBody(c, t)

Spec == Init /\ [][Next]_vars

-----------------------------------------------------------------------------
(* Claims about computeJaccard (SpecJaccard) *)

Range(q) == { q[k] : k \in 1..Len(q) }

\* C7: for every pair of genre sets A and B, computeJaccard(A, B) is
\* |A n B| / |A u B| when one of them is nonempty and exactly 0 when both are
\* empty; it is symmetric, 1 on (A, A) for nonempty A, and within [0, 1].
C7_JaccardIsIntersectionOverUnion ==
    score # NoScore =>
        LET A == Range(setA)
            B == Range(setB)
        IN  /\ score[2] > 0
            /\ (A = {} /\ B = {}) => score[1] = 0
            /\ (A \cup B # {}) =>
                  score[1] * Cardinality(A \cup B) = Cardinality(A \cap B) * score[2]
            /\ ScoreEq(score, computeJaccard(newSet(setB), newSet(setA)))
            /\ (A = B /\ A # {}) => ScoreEq(score, <<1, 1>>)
            /\ 0 <= score[1] /\ score[1] <= score[2]

\* C7 witness: a computed score of two different overlapping sets.
C7_Witness ==
    /\ score # NoScore
    /\ Range(setA) \cap Range(setB) # {}
    /\ Range(setA) \ Range(setB) # {}
    /\ Range(setB) \ Range(setA) # {}
    /\ ScoreLess(Zero, score) /\ ScoreLess(score, <<1, 1>>)

-----------------------------------------------------------------------------
(* Claims about parseItemData (SpecParse) *)

\* The lines of text that hold a record: not blank once trimmed, and with a
\* '|' in them, in the order of the text.
HasBar(line) == \E k \in 1..Len(line) : line[k] = "|"
RecordLinesOf(t) ==
    SelectSeq([k \in 1..Len(splitLines(t)) |-> trim(splitLines(t)[k])],
              LAMBDA line : line # <<>> /\ HasBar(line))
RecordLines == RecordLinesOf(text)

\* The last 18 fields of a line, or all of them when it has fewer.
LastFields(fields) ==
    LET n == Min(Len(genreNames), Len(fields))
    IN  [i \in 1..n |-> fields[Len(fields) - n + i]]

\* C8: the genres of every parsed movie are vocabulary names, and the i-th
\* name is among them exactly when the i-th of the last 18 fields of its line,
\* trimmed, is "1"; positions a shorter line lacks count as absent.
C8_GenresFollowTheLastFlags ==
    (parsed = "item" /\ Len(movies) = Len(RecordLines)) =>
        \A k \in 1..Len(movies) :
            LET last == LastFields(split(RecordLines[k], "|"))
            IN  /\ Range(movies[k].genres) \subseteq Range(genreNames)
                /\ \A i \in 1..Len(genreNames) :
                      (genreNames[i] \in Range(movies[k].genres))
                          <=> (i <= Len(last) /\ trim(last[i]) = <<"1">>)

\* C8 witness: a parsed line of more than 18 fields whose last field alone is
\* set, read as the last vocabulary name.
C8_Witness ==
    /\ parsed = "item"
    /\ Len(movies) = 1
    /\ Len(split(trim(text), "|")) > Len(genreNames) + 1
    /\ movies[1].genres = <<"Western">>

NoDigit(field) == \A k \in 1..Len(field) : ~IsDigit(field[k])

\* C9: parseItemData stores one movie per line that is not blank once trimmed
\* and has at least 2 '|'-separated fields, in line order, and none for any
\* other line; a non-numeric id field is stored as NaN.
C9_OneMoviePerRecordLine ==
    parsed = "item" =>
        /\ Len(movies) = Len(RecordLines)
        /\ \A k \in 1..Len(movies) :
              LET fields == split(RecordLines[k], "|")
              IN  /\ movies[k].title = trim(fields[2])
                  /\ movies[k].id = parseInt(fields[1])
                  /\ NoDigit(fields[1]) => movies[k].id = NaN

\* C9 witness: a text with a one-field line that is dropped and a line with a
\* non-numeric id that is stored.
C9_Witness ==
    /\ parsed = "item"
    /\ \E k \in 1..Len(splitLines(text)) : splitLines(text)[k] = <<"7">>
    /\ \E k \in 1..Len(movies) : movies[k].id = NaN
    /\ Len(movies) < Len(splitLines(text))

-----------------------------------------------------------------------------
(* Claims about getRecommendations (SpecRec) *)

selectedId == parseInt(selValue)

\* The selection names a movie of the catalog.
Found == ~selectedId.nan /\ \E i \in 1..Len(movies) : movies[i].id = selectedId

LikedIndex ==
    CHOOSE i \in 1..Len(movies) :
        /\ movies[i].id = selectedId
        /\ \A j \in 1..(i - 1) : movies[j].id # selectedId

\* Candidates: the positions of the catalog whose id is not the selected one.
CandidateIndexes(ms) == { i \in 1..Len(ms) : ms[i].id # selectedId }

\* Intersection over union of two genre collections, 0 when both are empty.
SetScore(g, h) ==
    IF Range(g) \cup Range(h) = {} THEN Zero
    ELSE <<Cardinality(Range(g) \cap Range(h)), Cardinality(Range(g) \cup Range(h))>>

ScoreAt(i) == SetScore(movies[LikedIndex].genres, movies[i].genres)

PositiveCandidates == { i \in CandidateIndexes(movies) : ScorePositive(ScoreAt(i)) }

IsEntryOf(entry, i) ==
    /\ entry.id = movies[i].id
    /\ entry.title = movies[i].title
    /\ entry.genres = movies[i].genres
    /\ ScoreEq(entry.score, ScoreAt(i))

Ranked(top) ==
    \A k, l \in 1..Len(top) :
        k < l =>
            /\ ~ScoreLess(top[k].score, top[l].score)
            /\ ScoreEq(top[k].score, top[l].score)
                  => ~StrLess(toLowerCase(top[l].title), toLowerCase(top[k].title))

\* The catalog with the movies at positions i and i + 1 exchanged.
Swapped(ms, i) ==
    [k \in 1..Len(ms) |-> IF k = i THEN ms[i + 1] ELSE IF k = i + 1 THEN ms[i] ELSE ms[k]]

\* Exchanging two neighbours of the catalog leaves the list as it is.  Every
\* catalog within the bounds is an initial state, and the exchanges of
\* neighbours generate every reordering, so this holding in every state is
\* the list being the same for every order of the catalog.
OrderIndependent ==
    \A i \in 1..(Len(movies) - 1) :
        getRecommendations(Swapped(movies, i), selValue).top = recOut.top

\* One movie carries the selected id, and no two candidates with the same
\* score have titles that are equal without case.
Unambiguous ==
    /\ Cardinality({ i \in 1..Len(movies) : movies[i].id = selectedId }) = 1
    /\ \A i, j \in CandidateIndexes(movies) :
          (i # j /\ ScoreEq(ScoreAt(i), ScoreAt(j)))
              => toLowerCase(movies[i].title) # toLowerCase(movies[j].title)

C3_AbsentIdIsNotFound ==
    (recOut # NoOut /\ ~selectedId.nan /\ ~Found) =>
        /\ recOut.kind = "Selected movie not found in dataset."
        /\ recOut.top = <<>>
        /\ resultText.msg = "Selected movie not found in dataset."
        /\ resultText.shown = <<>>

\* C3 witness: the not-found outcome on a catalog that holds a movie with a
\* NaN id beside others.
C3_Witness ==
    /\ recOut # NoOut /\ ~selectedId.nan /\ ~Found
    /\ \E i \in 1..Len(movies) : movies[i].id = NaN
    /\ \E i \in 1..Len(movies) : movies[i].id # NaN
    /\ recOut.kind = "Selected movie not found in dataset."

-----------------------------------------------------------------------------
(* Claims about loadData (Spec) *)

\* Call c has ended, no other call ran during it, and nothing has run since.
EndedAlone(c) ==
    /\ lastEnded = c
    /\ ~overlapped[c]
    /\ \A d \in Calls \ {c} : pc[d] \notin InFlight

\* C4: after a loadData() that returned, with no other call overlapping it,
\* movies is exactly the parse of the u.item text it read and ratings exactly
\* the parse of the u.data text it read, whatever earlier loads had left:
\* one movie per record line of that text, none of an earlier load.
C4_LastLoadReplacesBoth ==
    \A c \in Calls :
        (pc[c] = "returned" /\ EndedAlone(c)) =>
            /\ movies = parseItemData(itemBody[c])
            /\ ratings = parseRatingData(dataBody[c])
            /\ Len(movies) = Len(RecordLinesOf(itemBody[c]))

\* C4 witness: a second load has returned on top of a first one that had left
\* other movies and ratings.
C4_Witness ==
    \E c \in Calls :
        /\ pc[c] = "returned" /\ EndedAlone(c)
        /\ atStart[c].movies # <<>> /\ atStart[c].ratings # <<>>
        /\ movies # <<>> /\ movies # atStart[c].movies
        /\ ratings # atStart[c].ratings

\* The step in which call c asks for u.data.
RequestsData(c) ==
    /\ "u.data" \notin Range(requested[c])
    /\ "u.data" \in Range(requested'[c])

\* The step in which call c fails before u.data was asked for.
ItemFails(c) == pc[c] \in {"fetchItem", "readItem"} /\ pc'[c] = "threw"

\* The step in which call c fails after u.data was asked for.
DataFails(c) == pc[c] \in {"fetchData", "readData"} /\ pc'[c] = "threw"

\* u.data is asked for only in the step that parsed the body of a successful
\* u.item response into movies.
DataOnlyAfterItemParsed(c) ==
    RequestsData(c) =>
        /\ resp[c].source = "u.item" /\ resp[c].ok
        /\ pc[c] = "readItem"
        /\ movies' = parseItemData(itemBody'[c])

\* A failing u.item retrieval asks for nothing more and changes no collection.
ItemFailureStops(c) ==
    ItemFails(c) =>
        /\ "u.data" \notin Range(requested'[c])
        /\ movies' = movies /\ ratings' = ratings

\* The error thrown names the resource and the status of the response: what
\* lines 127 and 137 build.  The rejection of a promise carries its own error.
ErrorNames(c, source) ==
    error'[c] = FailedToLoad(source, resp'[c].status)
ErrorNamesOrTransport(c, source) ==
    IF resp'[c].source = source /\ ~resp'[c].ok
    THEN error'[c] = FailedToLoad(source, resp'[c].status)
    ELSE error'[c] = TransportError

PartialLoad(c) ==
    (DataFails(c) /\ ~overlapped[c]) =>
        /\ movies' = parseItemData(itemBody[c])
        /\ Len(movies') = Len(RecordLinesOf(itemBody[c]))
        /\ ratings' = atStart[c].ratings

C10_LoadsAreNotSerialised ==
    /\ (pc[1] \in InFlight /\ pc[2] \notin InFlight /\ loads < MaxLoads)
          => ENABLED LoadData
    /\ (pc[1] = "returned" /\ pc[2] = "returned") =>
          /\ \E c \in Calls : movies = parseItemData(itemBody[c])
          /\ \E c \in Calls : ratings = parseRatingData(dataBody[c])

\* C10 witness: two overlapping calls have both returned, movies is the parse
\* of one call's u.item text and ratings the parse of the other's u.data text.
C10_Witness ==
    \E a, b \in Calls :
        /\ a # b
        /\ pc[a] = "returned" /\ pc[b] = "returned"
        /\ overlapped[a] /\ overlapped[b]
        /\ movies = parseItemData(itemBody[a])
        /\ movies # parseItemData(itemBody[b])
        /\ ratings = parseRatingData(dataBody[b])
        /\ ratings # parseRatingData(dataBody[a])

=============================================================================
